---- MODULE Spec2Model ----
(***************************************************************************)
(* The XmlHttpRequest backend of BrowserFS: a read-only file system over a *)
(* static file index whose file sizes and contents are fetched on demand   *)
(* and cached on the index's Stats records.                                *)
(* Source: src/src/backend/XmlHttpRequest.ts                               *)
(***************************************************************************)
EXTENDS Integers, Sequences, FiniteSets, Bags, TLC

(***************************************************************************)
(* Bounds of the model.                                                    *)
(***************************************************************************)
\* longest buffer (remote content, preloaded buffer)
MaxLen == 1
\* most requests in flight at once
MaxPending == 2

(***************************************************************************)
(* Values.                                                                 *)
(***************************************************************************)
\* byte values; buffers differ by their length
Byte == {65}

Buffers == UNION {[1..n -> Byte] : n \in 0..MaxLen}

\* an optional value: <<>> is null, <<v>> is v
None == <<>>

Some(v) == <<v>>

NoErr == "none"

\* what an operation hands to its caller: a result value
NoVal == [kind |-> "none", size |-> 0, bytes |-> <<>>, names |-> <<>>]

StatsVal(size) == [kind |-> "stats", size |-> size, bytes |-> <<>>, names |-> <<>>]

DirStatsVal == [kind |-> "dirstats", size |-> 0, bytes |-> <<>>, names |-> <<>>]

FileVal(size, buffer) == [kind |-> "file", size |-> size, bytes |-> buffer, names |-> <<>>]

ListingVal(names) == [kind |-> "listing", size |-> 0, bytes |-> <<>>, names |-> names]

BufferVal(buffer) == [kind |-> "buffer", size |-> 0, bytes |-> buffer, names |-> <<>>]

StringVal(chars) == [kind |-> "string", size |-> 0, bytes |-> chars, names |-> <<>>]

\* one delivery to the caller: a callback invocation (e, rv), a return or a throw
Deliver(e, v) == [err |-> e, val |-> v]

\* the result of running a piece of code: the Stats records after it, the
\* deliveries to the caller in order, the order of close and delivery, the
\* transport calls issued, the request left in flight (if any), and whether
\* the object delivered holds the index's own Stats record of the file (shares)
\* rather than a copy of it
Result(st, out, log, probes, fetches, pend) ==
  [st |-> st, out |-> out, log |-> log, probes |-> probes, fetches |-> fetches, pend |-> pend,
   shares |-> FALSE]

Thrown(st, e) == Result(st, <<Deliver(e, NoVal)>>, <<"ret">>, 0, 0, None)

Returned(st, v) == Result(st, <<Deliver(NoErr, v)>>, <<"ret">>, 0, 0, None)

\* return stats, where stats is inode.getData(): the caller gets the record
\* of path itself, not a copy
ReturnedRecord(st, path) == [Returned(st, StatsVal(st[path].size)) EXCEPT !.shares = TRUE]

Called(st, e, v) == Result(st, <<Deliver(e, v)>>, <<"cb">>, 0, 0, None)

(***************************************************************************)
(* The file index (FileIndex.fromListing of the listing document).         *)
(***************************************************************************)
Files == {"/a.txt"}

Dirs == {"/"}

Index ==
  [p \in Files \cup Dirs |->
     IF p \in Files THEN [type |-> "file", listing |-> <<>>]
     ELSE [type |-> "dir", listing |-> <<"a.txt">>]]

NullInode == [type |-> "null", listing |-> <<>>]

\* the paths callers pass: the index's paths and one that is absent
AllPaths == Files \cup Dirs \cup {"/nope"}

getInode(path) == IF path \in DOMAIN Index THEN Index[path] ELSE NullInode

isFileInode(inode) == inode.type = "file"

isDirInode(inode) == inode.type = "dir"

\* the Stats record of every file as the index is built: size unknown, no data
InitStats == [f \in Files |-> [size |-> -1, file_data |-> None]]

\* Stats.clone(): a copy of the record's fields
clone(stats) == StatsVal(stats.size)

(***************************************************************************)
(* Open flags: what open reads of a FileFlag.                              *)
(***************************************************************************)
ActionTypes == {"NOP", "THROW_EXCEPTION", "TRUNCATE_FILE", "CREATE_FILE"}

FlagValues == [writeable : BOOLEAN, action : ActionTypes]

isWriteable(flags) == flags.writeable

pathExistsAction(flags) == flags.action

ReadNop == [writeable |-> FALSE, action |-> "NOP"]

(***************************************************************************)
(* The transport (xhr): what a request can answer.                         *)
(***************************************************************************)
XhrError == "XHR"

SizeResponse(e, size) == [err |-> e, size |-> size, data |-> <<>>]

FileResponse(e, data) == [err |-> e, size |-> 0, data |-> data]

\* _requestFileSizeAsync / _requestFileSizeSync of a path whose size the
\* server reports as rsize
SizeResponses(rsize) == {SizeResponse(XhrError, 0), SizeResponse(NoErr, rsize)}

\* _requestFileAsync / _requestFileSync of a path whose content is rdata
FileResponses(rdata) == {FileResponse(XhrError, <<>>), FileResponse(NoErr, rdata)}

(***************************************************************************)
(* empty, preloadFile.                                                     *)
(***************************************************************************)
empty_ResetSize(st) == [f \in DOMAIN st |-> [size |-> -1, file_data |-> None]]

empty(st) == [f \in DOMAIN st |-> [st[f] EXCEPT !.file_data = None]]

preloadFile_KeepSize(st, path, buffer) ==
  LET inode == getInode(path) IN
  IF isFileInode(inode)
  THEN Returned([st EXCEPT ![path].file_data = Some(buffer)], NoVal)
  ELSE Thrown(st, "EISDIR")

preloadFile(st, path, buffer) ==
  LET inode == getInode(path) IN
  IF isFileInode(inode)
  THEN IF inode = NullInode
       THEN Thrown(st, "ENOENT")
       ELSE Returned([st EXCEPT ![path] = [size |-> Len(buffer), file_data |-> Some(buffer)]],
                     NoVal)
  ELSE Thrown(st, "EISDIR")

(***************************************************************************)
(* stat, statSync.                                                         *)
(***************************************************************************)
StatRequest(path) == [kind |-> "stat", path |-> path, encoding |-> ""]

\* the callback stat hands to _requestFileSizeAsync
statSizeCb_WriteBeforeCheck(st, path, resp) ==
  LET st2 == [st EXCEPT ![path].size = resp.size] IN
  IF resp.err # NoErr
  THEN Called(st2, resp.err, NoVal)
  ELSE Called(st2, NoErr, clone(st2[path]))

statSizeCb_CloneBeforeWrite(st, path, resp) ==
  IF resp.err # NoErr
  THEN Called(st, resp.err, NoVal)
  ELSE LET st2 == [st EXCEPT ![path].size = resp.size] IN
       Called(st2, NoErr, clone(st[path]))

statSizeCb(st, path, resp) ==
  IF resp.err # NoErr
  THEN Called(st, resp.err, NoVal)
  ELSE LET st2 == [st EXCEPT ![path].size = resp.size] IN
       Called(st2, NoErr, clone(st2[path]))

stat_ProbeWhenNoData(st, path) ==
  LET inode == getInode(path) IN
  IF inode = NullInode THEN Called(st, "ENOENT", NoVal)
  ELSE IF isFileInode(inode)
  THEN IF st[path].file_data = None
       THEN Result(st, <<>>, <<>>, 1, 0, Some(StatRequest(path)))
       ELSE Called(st, NoErr, clone(st[path]))
  ELSE IF isDirInode(inode) THEN Called(st, NoErr, DirStatsVal)
  ELSE Called(st, "EINVAL", NoVal)

stat(st, path) ==
  LET inode == getInode(path) IN
  IF inode = NullInode THEN Called(st, "ENOENT", NoVal)
  ELSE IF isFileInode(inode)
  THEN IF st[path].size < 0
       THEN Result(st, <<>>, <<>>, 1, 0, Some(StatRequest(path)))
       ELSE Called(st, NoErr, clone(st[path]))
  ELSE IF isDirInode(inode) THEN Called(st, NoErr, DirStatsVal)
  ELSE Called(st, "EINVAL", NoVal)

statSync_NoWrite(st, path, resp) ==
  LET inode == getInode(path) IN
  IF inode = NullInode THEN Thrown(st, "ENOENT")
  ELSE IF isFileInode(inode)
  THEN IF st[path].size < 0
       THEN IF resp.err # NoErr
            THEN [Thrown(st, resp.err) EXCEPT !.probes = 1]
            ELSE [Returned(st, StatsVal(resp.size)) EXCEPT !.probes = 1, !.shares = TRUE]
       ELSE ReturnedRecord(st, path)
  ELSE IF isDirInode(inode) THEN Returned(st, DirStatsVal)
  ELSE Thrown(st, "EINVAL")

\* resp: what _requestFileSizeSync answers if it is called
statSync(st, path, resp) ==
  LET inode == getInode(path) IN
  IF inode = NullInode THEN Thrown(st, "ENOENT")
  ELSE IF isFileInode(inode)
  THEN IF st[path].size < 0
       THEN IF resp.err # NoErr
            THEN [Thrown(st, resp.err) EXCEPT !.probes = 1]
            ELSE LET st2 == [st EXCEPT ![path].size = resp.size] IN
                 [ReturnedRecord(st2, path) EXCEPT !.probes = 1]
       ELSE ReturnedRecord(st, path)
  ELSE IF isDirInode(inode) THEN Returned(st, DirStatsVal)
  ELSE Thrown(st, "EINVAL")

\* what the caller reads through the value val that was handed out for path,
\* once the Stats records are st: a Stats or a handle that holds the record
\* itself (shares) shows the size the record has now, a copy the size it was
\* made with; the buffer of a handle is the object it was given
seenThrough(shares, path, val, st) ==
  IF shares THEN [val EXCEPT !.size = st[path].size] ELSE val

(***************************************************************************)
(* open, openSync.                                                         *)
(***************************************************************************)
OpenRequest(path) == [kind |-> "open", path |-> path, encoding |-> ""]

\* new preload_file.NoSyncFile(fs, path, flags, stats.clone(), buffer)
NoSyncFile(stats, buffer) == FileVal(clone(stats).size, buffer)

\* the callback open hands to _requestFileAsync
openFileCb_NoErrCheck(st, path, resp) ==
  LET st2 == [st EXCEPT ![path] = [size |-> Len(resp.data),
                                   file_data |-> Some(resp.data)]] IN
  IF resp.err # NoErr
  THEN Called(st2, resp.err, NoVal)
  ELSE Called(st2, NoErr, NoSyncFile(st2[path], resp.data))

openFileCb_NoStore(st, path, resp) ==
  IF resp.err # NoErr
  THEN Called(st, resp.err, NoVal)
  ELSE LET st2 == [st EXCEPT ![path].size = Len(resp.data)] IN
       Called(st2, NoErr, NoSyncFile(st2[path], resp.data))

openFileCb(st, path, resp) ==
  IF resp.err # NoErr
  THEN Called(st, resp.err, NoVal)
  ELSE LET st2 == [st EXCEPT ![path] = [size |-> Len(resp.data),
                                        file_data |-> Some(resp.data)]] IN
       Called(st2, NoErr, NoSyncFile(st2[path], resp.data))

open_ExistsFirst(st, path, flags) ==
  LET inode == getInode(path) IN
  IF inode = NullInode THEN Called(st, "ENOENT", NoVal)
  ELSE IF isWriteable(flags) THEN Called(st, "EPERM", NoVal)
  ELSE IF isFileInode(inode)
  THEN CASE pathExistsAction(flags) \in {"THROW_EXCEPTION", "TRUNCATE_FILE"} ->
              Called(st, "EEXIST", NoVal)
         [] pathExistsAction(flags) = "NOP" ->
              IF st[path].file_data # None
              THEN Called(st, NoErr, NoSyncFile(st[path], st[path].file_data[1]))
              ELSE Result(st, <<>>, <<>>, 0, 1, Some(OpenRequest(path)))
         [] OTHER -> Called(st, "EINVAL", NoVal)
  ELSE Called(st, "EISDIR", NoVal)

open(st, path, flags) ==
  IF isWriteable(flags) THEN Called(st, "EPERM", NoVal)
  ELSE LET inode == getInode(path) IN
  IF inode = NullInode THEN Called(st, "ENOENT", NoVal)
  ELSE IF isFileInode(inode)
  THEN CASE pathExistsAction(flags) \in {"THROW_EXCEPTION", "TRUNCATE_FILE"} ->
              Called(st, "EEXIST", NoVal)
         [] pathExistsAction(flags) = "NOP" ->
              IF st[path].file_data # None
              THEN Called(st, NoErr, NoSyncFile(st[path], st[path].file_data[1]))
              ELSE Result(st, <<>>, <<>>, 0, 1, Some(OpenRequest(path)))
         [] OTHER -> Called(st, "EINVAL", NoVal)
  ELSE Called(st, "EISDIR", NoVal)

openSync_StatsNotCloned(st, path, flags, resp) ==
  IF isWriteable(flags) THEN Thrown(st, "EPERM")
  ELSE LET inode == getInode(path) IN
  IF inode = NullInode THEN Thrown(st, "ENOENT")
  ELSE IF isFileInode(inode)
  THEN CASE pathExistsAction(flags) \in {"THROW_EXCEPTION", "TRUNCATE_FILE"} ->
              Thrown(st, "EEXIST")
         [] pathExistsAction(flags) = "NOP" ->
              IF st[path].file_data # None
              THEN [Returned(st, NoSyncFile(st[path], st[path].file_data[1])) EXCEPT !.shares = TRUE]
              ELSE IF resp.err # NoErr
              THEN [Thrown(st, resp.err) EXCEPT !.fetches = 1]
              ELSE LET st2 == [st EXCEPT ![path] = [size |-> Len(resp.data),
                                                    file_data |-> Some(resp.data)]] IN
                   [Returned(st2, NoSyncFile(st2[path], resp.data)) EXCEPT !.fetches = 1, !.shares = TRUE]
         [] OTHER -> Thrown(st, "EINVAL")
  ELSE Thrown(st, "EISDIR")

\* resp: what _requestFileSync answers if it is called
openSync(st, path, flags, resp) ==
  IF isWriteable(flags) THEN Thrown(st, "EPERM")
  ELSE LET inode == getInode(path) IN
  IF inode = NullInode THEN Thrown(st, "ENOENT")
  ELSE IF isFileInode(inode)
  THEN CASE pathExistsAction(flags) \in {"THROW_EXCEPTION", "TRUNCATE_FILE"} ->
              Thrown(st, "EEXIST")
         [] pathExistsAction(flags) = "NOP" ->
              IF st[path].file_data # None
              THEN Returned(st, NoSyncFile(st[path], st[path].file_data[1]))
              ELSE IF resp.err # NoErr
              THEN [Thrown(st, resp.err) EXCEPT !.fetches = 1]
              ELSE LET st2 == [st EXCEPT ![path] = [size |-> Len(resp.data),
                                                    file_data |-> Some(resp.data)]] IN
                   [Returned(st2, NoSyncFile(st2[path], resp.data)) EXCEPT !.fetches = 1]
         [] OTHER -> Thrown(st, "EINVAL")
  ELSE Thrown(st, "EISDIR")

(***************************************************************************)
(* readdir, readdirSync.                                                   *)
(***************************************************************************)
\* what the caller's callback raises, when it raises
CallbackError == "CallbackError"

readdirSync_NoTypeCheck(st, path) ==
  LET inode == getInode(path) IN
  IF inode = NullInode THEN Thrown(st, "ENOENT")
  ELSE Returned(st, ListingVal(inode.listing))

readdirSync(st, path) ==
  LET inode == getInode(path) IN
  IF inode = NullInode THEN Thrown(st, "ENOENT")
  ELSE IF isDirInode(inode) THEN Returned(st, ListingVal(inode.listing))
  ELSE Thrown(st, "ENOTDIR")

\* raises: the caller's callback raises when it is handed a result
readdir(st, path, raises) ==
  LET r == readdirSync(st, path).out[1] IN
  IF r.err # NoErr
  THEN Called(st, r.err, NoVal)
  ELSE IF raises
  THEN Result(st, <<Deliver(NoErr, r.val), Deliver(CallbackError, NoVal)>>,
              <<"cb", "cb">>, 0, 0, None)
  ELSE Called(st, NoErr, r.val)

(***************************************************************************)
(* readFile, readFileSync.                                                 *)
(***************************************************************************)
NoEncoding == "null"

ValidEncodings == {"utf8"}

Encodings == {NoEncoding, "utf8", "bogus"}

\* Buffer.toString(encoding) throws a TypeError for an encoding it does not
\* know, unless the buffer is empty: it returns '' for a buffer of length 0
\* before it looks at the encoding
toStringThrows(buff, encoding) == encoding \notin ValidEncodings /\ Len(buff) > 0

\* Buffer.toString(encoding) when it does not throw: the text's code points
toString(buff) == [i \in 1..Len(buff) |-> IF buff[i] < 128 THEN buff[i] ELSE 65533]

\* util.copyingSlice(buff): a copy of all of buff
copyingSlice(buff) == SubSeq(buff, 1, Len(buff))

\* NoSyncFile.close(cb) and closeSync(): the error close reports
closeResult == NoErr

ReadFileRequest(path, encoding) == [kind |-> "readFile", path |-> path, encoding |-> encoding]

\* the calls tryToString makes to cb; raises: cb raises when handed a result
tryToString(buff, encoding, raises) ==
  IF toStringThrows(buff, encoding)
  THEN <<Deliver("TypeError", NoVal)>>
  ELSE IF raises
  THEN <<Deliver(NoErr, StringVal(toString(buff))), Deliver(CallbackError, NoVal)>>
  ELSE <<Deliver(NoErr, StringVal(toString(buff)))>>

\* the cb readFile installs once the file is open: close, then oldCb(err, arg)
readFileCloseCb(err, arg, err2) == Deliver(IF err = NoErr THEN err2 ELSE err, arg)

\* the callback readFile hands to open; o: what open delivers to it, err2:
\* what the handle's close reports
readFileOpenCbClosing(o, encoding, raises, err2) ==
  IF o.err # NoErr
  THEN [out |-> <<Deliver(o.err, NoVal)>>, log |-> <<"cb">>]
  ELSE LET fdBuff == o.val.bytes
           calls == IF encoding = NoEncoding
                    THEN <<Deliver(NoErr, BufferVal(copyingSlice(fdBuff)))>>
                    ELSE tryToString(fdBuff, encoding, raises)
       IN [out |-> [i \in 1..Len(calls) |->
                      readFileCloseCb(calls[i].err, calls[i].val, err2)],
           log |-> IF Len(calls) = 1 THEN <<"close", "cb">>
                   ELSE <<"close", "cb", "close", "cb">>]

\* with the handle open hands out, a NoSyncFile
readFileOpenCb(o, encoding, raises) == readFileOpenCbClosing(o, encoding, raises, closeResult)

readFile_IgnoresFlag(st, fname, encoding, flag, raises) ==
  LET o == open(st, fname, ReadNop) IN
  IF o.pend # None
  THEN Result(o.st, <<>>, <<>>, o.probes, o.fetches, Some(ReadFileRequest(fname, encoding)))
  ELSE LET c == readFileOpenCb(o.out[1], encoding, raises) IN
       Result(o.st, c.out, c.log, o.probes, o.fetches, None)

readFile(st, fname, encoding, flag, raises) ==
  LET o == open(st, fname, flag) IN
  IF o.pend # None
  THEN Result(o.st, <<>>, <<>>, o.probes, o.fetches, Some(ReadFileRequest(fname, encoding)))
  ELSE LET c == readFileOpenCb(o.out[1], encoding, raises) IN
       Result(o.st, c.out, c.log, o.probes, o.fetches, None)

\* the completion of the fetch that readFile's open issued
readFileFileCb(st, path, encoding, resp, raises) ==
  LET o == openFileCb(st, path, resp)
      c == readFileOpenCb(o.out[1], encoding, raises)
  IN Result(o.st, c.out, c.log, 0, 0, None)

\* try { return rv / throw } finally { fd.closeSync() }: what closeSync
\* throws (err2) takes the place of what the try block returned or threw
readFileSyncFinally(rv, err2) == IF err2 # NoErr THEN Deliver(err2, NoVal) ELSE rv

\* err2: what the handle's closeSync reports
readFileSyncClosing(st, fname, encoding, flag, resp, err2) ==
  LET o == openSync(st, fname, flag, resp) IN
  IF o.out[1].err # NoErr
  THEN o
  ELSE LET fdBuff == o.out[1].val.bytes
           rv == IF encoding = NoEncoding
                 THEN Deliver(NoErr, BufferVal(copyingSlice(fdBuff)))
                 ELSE IF toStringThrows(fdBuff, encoding)
                 THEN Deliver("TypeError", NoVal)
                 ELSE Deliver(NoErr, StringVal(toString(fdBuff)))
       IN Result(o.st, <<readFileSyncFinally(rv, err2)>>, <<"close", "ret">>,
                 o.probes, o.fetches, None)

\* with the handle openSync hands out, a NoSyncFile
readFileSync(st, fname, encoding, flag, resp) ==
  readFileSyncClosing(st, fname, encoding, flag, resp, closeResult)

(***************************************************************************)
(* The state.                                                              *)
(***************************************************************************)
VARIABLES
  stats,       \* the index's Stats record of every file
  remote,      \* the server: the content of every file (static); the size it
               \* reports for a file is the length of that content
  pending,     \* the requests in flight: a bag of request records
  hist,        \* per file: what has happened to it so far
  last         \* the step just taken: the operation, its inputs and outcome

vars == <<stats, remote, pending, hist, last>>

\* the record of a step: the operation, its path, the flags (of an open or
\* openSync), the buffer (of a preloadFile), the contents that were cleared
\* (by an empty), and of the Result r of the code the step ran what the caller
\* saw of it and whether what it got holds the file's record itself
Event(act, path, flags, buffer, r) ==
  [act |-> act, path |-> path, flags |-> flags, buffer |-> buffer,
   evicted |-> [f \in Files |-> None], out |-> r.out, log |-> r.log,
   probes |-> r.probes, fetches |-> r.fetches, issued |-> r.pend # None,
   shares |-> r.shares]

\* r delivered a result without error
Succeeded(r) == r.pend = None /\ Len(r.out) >= 1 /\ r.out[1].err = NoErr

InitHist ==
  [f \in Files |-> [opened |-> None, preloaded |-> FALSE, known |-> FALSE, foreign |-> FALSE,
                    loaded |-> None]]

\* a successful open or openSync of path has handed out a handle over bytes
HistOpened(h, path, r) ==
  IF path \in Files /\ Succeeded(r)
  THEN [h EXCEPT ![path].known = TRUE,
                 ![path].opened = IF @ = None THEN Some(r.out[1].val.bytes) ELSE @]
  ELSE h

\* a successful stat or statSync of path
HistKnown(h, path, r) ==
  IF path \in Files /\ Succeeded(r) THEN [h EXCEPT ![path].known = TRUE] ELSE h

HistPreloaded(h, path, r) ==
  IF path \in Files /\ Succeeded(r)
  THEN [h EXCEPT ![path].known = TRUE, ![path].preloaded = TRUE]
  ELSE h

\* a successful preloadFile gave path a buffer that is not as long as the
\* content the server has for it (rdata)
HistForeign(h, path, buffer, rdata, r) ==
  IF path \in Files /\ Succeeded(r) /\ Len(buffer) # Len(rdata[path])
  THEN [h EXCEPT ![path].foreign = TRUE]
  ELSE h

\* the buffer of the preloadFile that last succeeded on path, until empty
HistLoaded(h, path, buffer, r) ==
  IF path \in Files /\ Succeeded(r) THEN [h EXCEPT ![path].loaded = Some(buffer)] ELSE h

HistEmptied(h) == [f \in Files |-> [h[f] EXCEPT !.opened = None, !.loaded = None]]

Init ==
  /\ stats = InitStats
  /\ remote \in [Files -> Buffers]
  /\ pending = EmptyBag
  /\ hist = InitHist
  /\ last = Event("init", "/", ReadNop, <<>>, Result(InitStats, <<>>, <<>>, 0, 0, None))

\* the requests a step leaves in flight
Issue(r) == IF r.pend = None THEN pending ELSE pending (+) SetToBag({r.pend[1]})

\* a step may issue a request only while there is room for it
Room(r) == r.pend = None \/ BagCardinality(pending) < MaxPending

Static == UNCHANGED remote

(***************************************************************************)
(* The operations.                                                         *)
(***************************************************************************)
Empty ==
  /\ stats' = empty(stats)
  /\ hist' = HistEmptied(hist)
  /\ last' = [Event("empty", "/", ReadNop, <<>>, Result(stats', <<>>, <<>>, 0, 0, None))
                EXCEPT !.evicted = [f \in Files |-> stats[f].file_data]]
  /\ UNCHANGED pending
  /\ Static

PreloadFile(path, buffer) ==
  LET r == preloadFile(stats, path, buffer) IN
  /\ stats' = r.st
  /\ hist' = HistLoaded(HistForeign(HistPreloaded(hist, path, r), path, buffer, remote, r),
                        path, buffer, r)
  /\ last' = Event("preloadFile", path, ReadNop, buffer, r)
  /\ UNCHANGED pending
  /\ Static

Stat(path) ==
  LET r == stat(stats, path) IN
  /\ Room(r)
  /\ stats' = r.st
  /\ pending' = Issue(r)
  /\ hist' = HistKnown(hist, path, r)
  /\ last' = Event("stat", path, ReadNop, <<>>, r)
  /\ Static

\* the size request of a stat in flight answers
StatSizeDone(req, resp) ==
  LET r == statSizeCb(stats, req.path, resp) IN
  /\ req.kind = "stat"
  /\ stats' = r.st
  /\ pending' = pending (-) SetToBag({req})
  /\ hist' = HistKnown(hist, req.path, r)
  /\ last' = Event("statDone", req.path, ReadNop, <<>>, r)
  /\ Static

StatSync(path, resp) ==
  LET r == statSync(stats, path, resp) IN
  /\ stats' = r.st
  /\ hist' = HistKnown(hist, path, r)
  /\ last' = Event("statSync", path, ReadNop, <<>>, r)
  /\ UNCHANGED pending
  /\ Static

Open(path, flags) ==
  LET r == open(stats, path, flags) IN
  /\ Room(r)
  /\ stats' = r.st
  /\ pending' = Issue(r)
  /\ hist' = HistOpened(hist, path, r)
  /\ last' = Event("open", path, flags, <<>>, r)
  /\ Static

\* the file request of an open in flight answers
OpenFileDone(req, resp) ==
  LET r == openFileCb(stats, req.path, resp) IN
  /\ req.kind = "open"
  /\ stats' = r.st
  /\ pending' = pending (-) SetToBag({req})
  /\ hist' = HistOpened(hist, req.path, r)
  /\ last' = Event("openDone", req.path, ReadNop, <<>>, r)
  /\ Static

OpenSync(path, flags, resp) ==
  LET r == openSync(stats, path, flags, resp) IN
  /\ stats' = r.st
  /\ hist' = HistOpened(hist, path, r)
  /\ last' = Event("openSync", path, flags, <<>>, r)
  /\ UNCHANGED pending
  /\ Static

Readdir(path, raises) ==
  LET r == readdir(stats, path, raises) IN
  /\ stats' = r.st
  /\ last' = Event("readdir", path, ReadNop, <<>>, r)
  /\ UNCHANGED <<pending, hist>>
  /\ Static

ReaddirSync(path) ==
  LET r == readdirSync(stats, path) IN
  /\ stats' = r.st
  /\ last' = Event("readdirSync", path, ReadNop, <<>>, r)
  /\ UNCHANGED <<pending, hist>>
  /\ Static

ReadFile(fname, encoding, flag, raises) ==
  LET r == readFile(stats, fname, encoding, flag, raises) IN
  /\ Room(r)
  /\ stats' = r.st
  /\ pending' = Issue(r)
  /\ last' = Event("readFile", fname, ReadNop, <<>>, r)
  /\ UNCHANGED hist
  /\ Static

\* the file request of a readFile in flight answers
ReadFileDone(req, resp, raises) ==
  LET r == readFileFileCb(stats, req.path, req.encoding, resp, raises) IN
  /\ req.kind = "readFile"
  /\ stats' = r.st
  /\ pending' = pending (-) SetToBag({req})
  /\ last' = Event("readFileDone", req.path, ReadNop, <<>>, r)
  /\ UNCHANGED hist
  /\ Static

ReadFileSync(fname, encoding, flag, resp) ==
  LET r == readFileSync(stats, fname, encoding, flag, resp) IN
  /\ stats' = r.st
  /\ last' = Event("readFileSync", fname, ReadNop, <<>>, r)
  /\ UNCHANGED <<pending, hist>>
  /\ Static

\* what the server answers for a path (a path that is no file has no content)
SizeAnswers(path) ==
  IF path \in Files THEN SizeResponses(Len(remote[path])) ELSE {SizeResponse(XhrError, 0)}

FileAnswers(path) ==
  IF path \in Files THEN FileResponses(remote[path]) ELSE {FileResponse(XhrError, <<>>)}

\* the operations on the cache of sizes and contents
NextCache ==
  \/ Empty
  \/ \E path \in AllPaths, buffer \in Buffers : PreloadFile(path, buffer)
  \/ \E path \in AllPaths : Stat(path)
  \/ \E req \in BagToSet(pending) : \E resp \in SizeAnswers(req.path) :
       StatSizeDone(req, resp)
  \/ \E path \in AllPaths : \E resp \in SizeAnswers(path) : StatSync(path, resp)
  \/ \E path \in AllPaths, flags \in FlagValues : Open(path, flags)
  \/ \E req \in BagToSet(pending) : \E resp \in FileAnswers(req.path) :
       OpenFileDone(req, resp)
  \/ \E path \in AllPaths, flags \in FlagValues : \E resp \in FileAnswers(path) :
       OpenSync(path, flags, resp)

\* the operations that read through it
NextRead ==
  \/ \E path \in AllPaths, raises \in BOOLEAN : Readdir(path, raises)
  \/ \E path \in AllPaths : ReaddirSync(path)
  \/ \E fname \in AllPaths, encoding \in Encodings, flag \in FlagValues, raises \in BOOLEAN :
       ReadFile(fname, encoding, flag, raises)
  \/ \E req \in BagToSet(pending), raises \in BOOLEAN : \E resp \in FileAnswers(req.path) :
       ReadFileDone(req, resp, raises)
  \/ \E fname \in AllPaths, encoding \in Encodings, flag \in FlagValues :
       \E resp \in FileAnswers(fname) : ReadFileSync(fname, encoding, flag, resp)

Next == NextCache \/ NextRead

Spec == Init /\ [][Next]_vars

SpecCache == Init /\ [][NextCache]_vars

\* the read operations over a cache that preloadFile fills and empty clears
NextReadOnly ==
  \/ Empty
  \/ \E path \in AllPaths, buffer \in Buffers : PreloadFile(path, buffer)
  \/ NextRead

SpecRead == Init /\ [][NextReadOnly]_vars

\* every operation, with the flags of a plain read and a callback that returns
NextAll ==
  \/ Empty
  \/ \E path \in AllPaths, buffer \in Buffers : PreloadFile(path, buffer)
  \/ \E path \in AllPaths : Stat(path)
  \/ \E req \in BagToSet(pending) : \E resp \in SizeAnswers(req.path) :
       StatSizeDone(req, resp)
  \/ \E path \in AllPaths : \E resp \in SizeAnswers(path) : StatSync(path, resp)
  \/ \E path \in AllPaths : Open(path, ReadNop)
  \/ \E req \in BagToSet(pending) : \E resp \in FileAnswers(req.path) :
       OpenFileDone(req, resp)
  \/ \E path \in AllPaths : \E resp \in FileAnswers(path) : OpenSync(path, ReadNop, resp)
  \/ \E path \in AllPaths : Readdir(path, FALSE)
  \/ \E path \in AllPaths : ReaddirSync(path)
  \/ \E fname \in AllPaths, encoding \in Encodings : ReadFile(fname, encoding, ReadNop, FALSE)
  \/ \E req \in BagToSet(pending) : \E resp \in FileAnswers(req.path) :
       ReadFileDone(req, resp, FALSE)
  \/ \E fname \in AllPaths, encoding \in Encodings : \E resp \in FileAnswers(fname) :
       ReadFileSync(fname, encoding, ReadNop, resp)

SpecAll == Init /\ [][NextAll]_vars

\* stat and open alone, blocking and not, with the flags of a plain read
NextFetch ==
  \/ \E path \in AllPaths : Stat(path)
  \/ \E req \in BagToSet(pending) : \E resp \in SizeAnswers(req.path) :
       StatSizeDone(req, resp)
  \/ \E path \in AllPaths : \E resp \in SizeAnswers(path) : StatSync(path, resp)
  \/ \E path \in AllPaths : Open(path, ReadNop)
  \/ \E req \in BagToSet(pending) : \E resp \in FileAnswers(req.path) :
       OpenFileDone(req, resp)
  \/ \E path \in AllPaths : \E resp \in FileAnswers(path) : OpenSync(path, ReadNop, resp)

SpecFetch == Init /\ [][NextFetch]_vars

(***************************************************************************)
(* What the operations do when run to completion from given Stats records. *)
(***************************************************************************)
\* b after a, as one run: the transport calls of both
After(a, b) == [b EXCEPT !.probes = a.probes + b.probes, !.fetches = a.fetches + b.fetches]

\* stat, then the answer resp to the size request it issued (if it issued one)
statRun(st, path, resp) ==
  LET a == stat(st, path) IN
  IF a.pend = None THEN a ELSE After(a, statSizeCb(a.st, path, resp))

\* open, then the answer resp to the file request it issued (if it issued one)
openRun(st, path, flags, resp) ==
  LET a == open(st, path, flags) IN
  IF a.pend = None THEN a ELSE After(a, openFileCb(a.st, path, resp))

readFileRun(st, fname, encoding, flag, resp, raises) ==
  LET a == readFile(st, fname, encoding, flag, raises) IN
  IF a.pend = None THEN a ELSE After(a, readFileFileCb(a.st, fname, encoding, resp, raises))

\* how often close was called
Closes(log) == Cardinality({i \in 1..Len(log) : log[i] = "close"})

\* two runs that a caller cannot tell apart: the same deliveries, the same
\* transport calls, the same closes, the same Stats records afterwards
SameOutcome(a, b) ==
  /\ a.out = b.out
  /\ a.probes = b.probes
  /\ a.fetches = b.fetches
  /\ Closes(a.log) = Closes(b.log)
  /\ a.st = b.st
  /\ a.pend = None
  /\ b.pend = None

(***************************************************************************)
(* C1: open and openSync decide in a fixed order.                          *)
(***************************************************************************)
\* the error the claim names for a path and flags ("none": a file handle)
OpenPolicy(path, flags) ==
  IF flags.writeable THEN "EPERM"
  ELSE IF path \notin Files \cup Dirs THEN "ENOENT"
  ELSE IF path \in Dirs THEN "EISDIR"
  ELSE IF flags.action \in {"THROW_EXCEPTION", "TRUNCATE_FILE"} THEN "EEXIST"
  ELSE IF flags.action = "NOP" THEN NoErr
  ELSE "EINVAL"

\* C1: for every path and every flags, in every state of the cache, open and
\* openSync fail with the error the precedence names (write intent: EPERM; else
\* absent: ENOENT; else directory: EISDIR; else THROW_EXCEPTION or TRUNCATE_FILE:
\* EEXIST; any action but NOP: EINVAL), without a transport call and with every
\* Stats record as it was; with NOP they hand out a file handle, or the error
\* of the one fetch they needed. The open or openSync just run did so too.
C1_OpenPrecedence ==
  /\ \A path \in AllPaths, flags \in FlagValues :
       LET e == OpenPolicy(path, flags)
           a == open(stats, path, flags)
       IN /\ e # NoErr => a = Called(stats, e, NoVal)
          /\ e = NoErr =>
               \/ a.pend # None /\ a.fetches = 1 /\ a.out = <<>>
               \/ a.pend = None /\ a.fetches = 0 /\ a.out[1].err = NoErr
                    /\ a.out[1].val.kind = "file"
          /\ \A resp \in FileAnswers(path) :
               LET s == openSync(stats, path, flags, resp) IN
               /\ e # NoErr => s = Thrown(stats, e)
               /\ e = NoErr =>
                    \/ s.fetches = 1 /\ s.out[1].err = resp.err
                         /\ (resp.err = NoErr => s.out[1].val.kind = "file")
                    \/ s.fetches = 0 /\ s.out[1].err = NoErr /\ s.out[1].val.kind = "file"
  /\ last.act \in {"open", "openSync"} =>
       LET e == OpenPolicy(last.path, last.flags) IN
       /\ e # NoErr => /\ last.out = <<Deliver(e, NoVal)>>
                       /\ last.fetches = 0 /\ last.probes = 0 /\ ~last.issued
       /\ e = NoErr => \/ last.issued
                       \/ last.out[1].err \in {NoErr, XhrError}

\* write intent on a directory: EPERM, not EISDIR
C1_Witness ==
  /\ last.act = "open"
  /\ last.path \in Dirs
  /\ last.flags.writeable
  /\ last.flags.action = "THROW_EXCEPTION"
  /\ last.out = <<Deliver("EPERM", NoVal)>>
  /\ \E f \in Files : stats[f].file_data # None

(***************************************************************************)
(* C2: the blocking and the non-blocking variants cannot be told apart.    *)
(***************************************************************************)
\* C2: in every state of the cache, for every path, flags, encoding and answer
\* of the server, the blocking variant and the non-blocking variant run to
\* completion deliver the same result or error, issue the same transport calls
\* and leave the same Stats records: stat and statSync, open and openSync,
\* readdir and readdirSync, readFile and readFileSync.
C2_ModesAgree ==
  \A path \in AllPaths :
    /\ \A resp \in SizeAnswers(path) :
         SameOutcome(statRun(stats, path, resp), statSync(stats, path, resp))
    /\ \A flags \in FlagValues, resp \in FileAnswers(path) :
         /\ SameOutcome(openRun(stats, path, flags, resp), openSync(stats, path, flags, resp))
         /\ \A encoding \in Encodings :
              SameOutcome(readFileRun(stats, path, encoding, flags, resp, FALSE),
                          readFileSync(stats, path, encoding, flags, resp))
    /\ SameOutcome(readdir(stats, path, FALSE), readdirSync(stats, path))

\* a non-blocking stat has run to completion through the size request, and
\* statSync now answers the size it delivered
C2_Witness ==
  /\ last.act = "statDone"
  /\ last.path \in Files
  /\ last.out[1].err = NoErr
  /\ stats[last.path].file_data = None
  /\ \A resp \in SizeAnswers(last.path) :
       statSync(stats, last.path, resp).out = last.out

(***************************************************************************)
(* C3: a file that has been opened is not fetched again.                   *)
(***************************************************************************)
\* the step is an open or openSync of file f with NOP
OpensNop(f) ==
  /\ last'.act \in {"open", "openSync"}
  /\ last'.path = f
  /\ last'.flags = ReadNop

\* the step issued no transport call and delivered at once, without error
CachedHit == last'.fetches = 0 /\ last'.probes = 0 /\ ~last'.issued /\ last'.out[1].err = NoErr

\* C3 (as amended): once an open or openSync with NOP of a file has succeeded,
\* and until empty is called, every open or openSync with NOP of that file
\* issues no transport call and delivers a handle; the handle's bytes are those
\* of the first open if preloadFile has never given the file other content.
C3_ReopenCached ==
  [][\A f \in Files :
       (OpensNop(f) /\ hist[f].opened # None) =>
         /\ CachedHit
         /\ ~hist[f].preloaded => last'.out[1].val.bytes = hist[f].opened[1]]_vars

\* C3 (as stated): ... and the handle's bytes are those of the first open.
C3_AsStated ==
  [][\A f \in Files :
       (OpensNop(f) /\ hist[f].opened # None) =>
         /\ CachedHit
         /\ last'.out[1].val.bytes = hist[f].opened[1]]_vars

\* an open answered from the content that an earlier open fetched
C3_Witness ==
  /\ last.act = "open"
  /\ last.path \in Files
  /\ last.flags = ReadNop
  /\ last.fetches = 0
  /\ ~last.issued
  /\ last.out[1].err = NoErr
  /\ ~hist[last.path].preloaded
  /\ hist[last.path].opened = Some(last.out[1].val.bytes)
  /\ Len(last.out[1].val.bytes) = MaxLen

(***************************************************************************)
(* C4: stat asks for the size only while it is unknown.                    *)
(***************************************************************************)
\* C4: a stat or statSync of a file issues one size request if the record's
\* size is negative at the call and none otherwise; stat never requests the
\* file and never changes file_data; a size request that succeeds stores the
\* size the server reported. Once a stat, an open or a preloadFile of the file
\* has succeeded, a stat issues no transport call and delivers the record's
\* size.
C4_StatProbes ==
  [][\A f \in Files :
       /\ (last'.act \in {"stat", "statSync"} /\ last'.path = f) =>
            /\ last'.probes = (IF stats[f].size < 0 THEN 1 ELSE 0)
            /\ last'.fetches = 0
            /\ stats'[f].file_data = stats[f].file_data
            /\ last'.issued = (last'.act = "stat" /\ stats[f].size < 0)
            /\ (last'.probes = 1 /\ ~last'.issued /\ last'.out[1].err = NoErr) =>
                 /\ stats'[f].size = Len(remote[f])
                 /\ last'.out[1].val = StatsVal(Len(remote[f]))
            /\ hist[f].known =>
                 /\ last'.probes = 0
                 /\ stats[f].size >= 0
                 /\ last'.out = <<Deliver(NoErr, StatsVal(stats[f].size))>>
                 /\ stats' = stats
       /\ (last'.act = "statDone" /\ last'.path = f) =>
            /\ last'.probes = 0
            /\ last'.fetches = 0
            /\ stats'[f].file_data = stats[f].file_data
            /\ last'.out[1].err = NoErr =>
                 /\ stats'[f].size = Len(remote[f])
                 /\ last'.out[1].val = StatsVal(Len(remote[f]))
            /\ last'.out[1].err # NoErr => stats' = stats]_vars

\* a stat answered from the size an earlier stat asked for: no content yet
C4_Witness ==
  /\ last.act = "stat"
  /\ last.path \in Files
  /\ last.probes = 0
  /\ ~last.issued
  /\ last.out = <<Deliver(NoErr, StatsVal(Len(remote[last.path])))>>
  /\ stats[last.path].file_data = None
  /\ ~hist[last.path].preloaded
  /\ hist[last.path].opened = None
  /\ hist[last.path].known

(***************************************************************************)
(* C5: a preloaded file is served from the preloaded buffer.               *)
(***************************************************************************)
\* C5: right after a preloadFile of a file with a buffer has succeeded, a stat
\* or statSync of the file delivers the buffer's length and an open or openSync
\* with NOP delivers a handle over the buffer, without a transport call,
\* whatever the record held before.
C5_PreloadServes ==
  [][\A f \in Files :
       (/\ last.act = "preloadFile" /\ last.path = f /\ last.out[1].err = NoErr
        /\ last'.path = f) =>
          /\ last'.act \in {"stat", "statSync"} =>
               /\ last'.out = <<Deliver(NoErr, StatsVal(Len(last.buffer)))>>
               /\ CachedHit
          /\ OpensNop(f) =>
               /\ last'.out[1].val.bytes = last.buffer
               /\ last'.out[1].val.kind = "file"
               /\ CachedHit]_vars

\* a stat that delivers the length of preloaded content, which is not the
\* length of the server's content, without a size request
C5_Witness ==
  /\ last.act = "stat"
  /\ last.path \in Files
  /\ last.probes = 0
  /\ last.fetches = 0
  /\ ~last.issued
  /\ hist[last.path].preloaded
  /\ stats[last.path].file_data # None
  /\ Len(stats[last.path].file_data[1]) # Len(remote[last.path])
  /\ last.out = <<Deliver(NoErr, StatsVal(Len(stats[last.path].file_data[1])))>>

(***************************************************************************)
(* C6: the errors of preloadFile.                                          *)
(***************************************************************************)
\* C6: preloadFile of a directory fails with EISDIR and preloadFile of a path
\* that is not in the index fails with ENOENT; neither changes a Stats record.
C6_PreloadErrors ==
  [][last'.act = "preloadFile" =>
       /\ last'.path \in Dirs =>
            last'.out = <<Deliver("EISDIR", NoVal)>> /\ stats' = stats
       /\ last'.path \notin Files \cup Dirs =>
            last'.out = <<Deliver("ENOENT", NoVal)>> /\ stats' = stats]_vars

(***************************************************************************)
(* C7: empty clears the contents and nothing else.                         *)
(***************************************************************************)
\* the step follows an empty that cleared content of file f, with nothing in
\* flight, and is an open or openSync of f with NOP
ReopensEvicted(f) ==
  /\ last.act = "empty"
  /\ last.evicted[f] # None
  /\ pending = EmptyBag
  /\ OpensNop(f)

\* empty clears file_data of every file; sizes, paths, node types, listings and
\* the requests in flight stay as they are
EmptyFrame ==
  last'.act = "empty" =>
    /\ DOMAIN stats' = DOMAIN stats
    /\ \A f \in Files : stats'[f].size = stats[f].size /\ stats'[f].file_data = None
    /\ pending' = pending
    /\ \A p \in AllPaths : readdirSync(stats', p).out = readdirSync(stats, p).out

\* after empty, a stat of a file whose size is known issues no transport call
StatAfterEmpty(f) ==
  (/\ last.act = "empty" /\ stats[f].size >= 0
   /\ last'.act \in {"stat", "statSync"} /\ last'.path = f) =>
     /\ CachedHit
     /\ last'.out[1].val = StatsVal(stats[f].size)

\* C7 (as amended): empty clears file_data of every file and changes nothing
\* else. After it, with no request in flight, the next open with NOP of a file
\* that had content issues exactly one file request and, if the request
\* succeeds, delivers the server's content, which is the content the file had
\* unless preloadFile had given it other content; a stat of a file whose size
\* was known issues no transport call.
C7_EmptyClearsContent ==
  [][/\ EmptyFrame
     /\ \A f \in Files :
          /\ StatAfterEmpty(f)
          /\ ReopensEvicted(f) =>
               /\ last'.fetches = 1
               /\ last'.probes = 0
               /\ last'.issued = (last'.act = "open")
               /\ (~last'.issued /\ last'.out[1].err = NoErr) =>
                    last'.out[1].val.bytes = remote[f]
               /\ LET r == openRun(stats, f, ReadNop, FileResponse(NoErr, remote[f])) IN
                  r.fetches = 1 /\ r.out[1].err = NoErr /\ r.out[1].val.bytes = remote[f]
               /\ (~hist[f].preloaded) => last.evicted[f] = Some(remote[f])]_vars

\* C7 (as stated): ... the next open delivers the bytes that were cached.
C7_AsStated ==
  [][/\ EmptyFrame
     /\ \A f \in Files :
          /\ StatAfterEmpty(f)
          /\ ReopensEvicted(f) =>
               /\ last'.fetches = 1
               /\ (~last'.issued /\ last'.out[1].err = NoErr) =>
                    last'.out[1].val.bytes = last.evicted[f][1]]_vars

\* an openSync that had to fetch a file that preloadFile once filled, and that
\* is the first open since the empty that cleared it
C7_Witness ==
  /\ last.act = "openSync"
  /\ last.path \in Files
  /\ last.flags = ReadNop
  /\ last.fetches = 1
  /\ last.out[1].err = NoErr
  /\ last.out[1].val.bytes = remote[last.path]
  /\ pending = EmptyBag
  /\ hist[last.path].preloaded
  /\ hist[last.path].opened = Some(remote[last.path])

(***************************************************************************)
(* C8: a non-blocking operation calls back exactly once.                   *)
(***************************************************************************)
\* the step has completed a non-blocking operation
Completed ==
  \/ last.act \in {"stat", "open", "readdir", "readFile"} /\ ~last.issued
  \/ last.act \in {"statDone", "openDone", "readFileDone"}

\* C8: a non-blocking operation that has completed has called the caller's
\* callback exactly once, with an error or with a result and not with both,
\* whether or not the callback raised.
C8_CallbackOnce ==
  Completed =>
    /\ Len(last.out) = 1
    /\ ~(last.out[1].err # NoErr /\ last.out[1].val # NoVal)

(***************************************************************************)
(* C9: readFile closes the file it opened, once.                           *)
(***************************************************************************)
\* the errors with which the open inside readFile fails
OpenErrors == {"EPERM", "ENOENT", "EISDIR", "EEXIST", "EINVAL", XhrError}

\* C9: a readFile or readFileSync that has completed has, if its open
\* succeeded, called close exactly once and before it delivered its result or
\* error, also when decoding failed or the callback raised; if its open failed,
\* it has not called close and has delivered the error of the open.
C9_CloseOnce ==
  (\/ last.act \in {"readFile"} /\ ~last.issued
   \/ last.act \in {"readFileDone", "readFileSync"}) =>
     IF last.out[1].err \in OpenErrors
     THEN Closes(last.log) = 0 /\ Len(last.out) = 1
     ELSE last.log \in {<<"close", "cb">>, <<"close", "ret">>}

(***************************************************************************)
(* C10: readFile without encoding is open, read the buffer, close.         *)
(***************************************************************************)
\* what the caller gets who opens (o: the run of open or openSync), takes the
\* handle's whole buffer and closes
ReadWholeBuffer(o) ==
  IF o.out[1].err # NoErr
  THEN o.out[1]
  ELSE Deliver(closeResult, BufferVal(o.out[1].val.bytes))

\* C10: in every state of the cache, for every path, flags and answer of the
\* server, readFile without encoding (and readFileSync) delivers what open (and
\* openSync), reading the handle's buffer and close deliver: the same bytes or
\* the same error, after the same transport calls, leaving the same Stats
\* records.
C10_ReadFileIsOpenReadClose ==
  \A path \in AllPaths, flags \in FlagValues :
    \A resp \in FileAnswers(path) :
      /\ \A raises \in BOOLEAN :
           LET r == readFileRun(stats, path, NoEncoding, flags, resp, raises)
               o == openRun(stats, path, flags, resp)
           IN /\ r.out = <<ReadWholeBuffer(o)>>
              /\ r.fetches = o.fetches
              /\ r.probes = o.probes
              /\ r.st = o.st
      /\ LET r == readFileSync(stats, path, NoEncoding, flags, resp)
             o == openSync(stats, path, flags, resp)
         IN /\ r.out = <<ReadWholeBuffer(o)>>
            /\ r.fetches = o.fetches
            /\ r.probes = o.probes
            /\ r.st = o.st

\* a readFile without encoding has fetched the file and delivered its bytes
C10_Witness ==
  /\ last.act = "readFileDone"
  /\ last.path \in Files
  /\ last.out = <<Deliver(NoErr, BufferVal(remote[last.path]))>>
  /\ Len(remote[last.path]) = MaxLen
  /\ stats[last.path] = [size |-> MaxLen, file_data |-> Some(remote[last.path])]

(***************************************************************************)
(* C11: the size stat delivers is the length of what open delivers.        *)
(***************************************************************************)
\* the step just taken delivered the size of file f
StatDelivered(f) ==
  /\ last.act \in {"stat", "statDone", "statSync"}
  /\ last.path = f
  /\ ~last.issued
  /\ last.out[1].err = NoErr

\* the step just taken delivered a handle of file f
OpenDelivered(f) ==
  /\ last.act \in {"open", "openDone", "openSync"}
  /\ last.path = f
  /\ ~last.issued
  /\ last.out[1].err = NoErr

\* a stat of f that succeeds, then an open of f with NOP that succeeds, each
\* blocking or not: the handle's buffer is as long as the size of the stat
StatThenOpenAgree(f) ==
  LET sizeOk == SizeResponse(NoErr, Len(remote[f]))
      fileOk == FileResponse(NoErr, remote[f])
  IN \A s \in {statRun(stats, f, sizeOk), statSync(stats, f, sizeOk)} :
       \A o \in {openRun(s.st, f, ReadNop, fileOk), openSync(s.st, f, ReadNop, fileOk)} :
         /\ s.out[1].err = NoErr
         /\ o.out[1].err = NoErr
         /\ Len(o.out[1].val.bytes) = s.out[1].val.size

\* C11 (as amended): for every file whose preloaded buffers (if any) were as
\* long as the server's content, in every state: a stat that succeeds followed
\* by an open with NOP that succeeds delivers a handle whose buffer is as long
\* as the size the stat delivered, blocking, non-blocking or mixed; and every
\* size a stat has delivered and every buffer an open has delivered has the
\* length of the server's content.
C11_StatSizeIsOpenLength ==
  \A f \in Files :
    ~hist[f].foreign =>
      /\ StatThenOpenAgree(f)
      /\ StatDelivered(f) => last.out[1].val.size = Len(remote[f])
      /\ OpenDelivered(f) => Len(last.out[1].val.bytes) = Len(remote[f])

\* C11 (as stated): for every file, in every state.
C11_AsStated == \A f \in Files : StatThenOpenAgree(f)

\* a non-blocking stat has delivered the size it asked the server for, and the
\* open that follows will fetch a buffer of that length
C11_Witness ==
  \E f \in Files :
    /\ last.act = "statDone"
    /\ StatDelivered(f)
    /\ last.out[1].val.size = MaxLen
    /\ stats[f].file_data = None
    /\ ~hist[f].foreign
    /\ openSync(stats, f, ReadNop, FileResponse(NoErr, remote[f])).fetches = 1

(***************************************************************************)
(* C12: readdir answers from the index alone.                              *)
(***************************************************************************)
\* what the claim names for a path: the stored names of a directory, ENOTDIR
\* for a file, ENOENT for a path that is not in the index
ListingPolicy(path) ==
  IF path \in Dirs THEN Deliver(NoErr, ListingVal(Index[path].listing))
  ELSE IF path \in Files THEN Deliver("ENOTDIR", NoVal)
  ELSE Deliver("ENOENT", NoVal)

\* C12: in every state, whatever stat, open, readFile, preloadFile and empty
\* have done and whatever is in flight, readdir and readdirSync of a directory
\* deliver the names stored in the index in the stored order, of a file fail
\* with ENOTDIR and of an absent path fail with ENOENT; they issue no transport
\* call and leave every Stats record as it is. The readdir or readdirSync just
\* run did so too.
C12_ReaddirFromIndex ==
  /\ \A path \in AllPaths :
       /\ readdirSync(stats, path) =
            Result(stats, <<ListingPolicy(path)>>, <<"ret">>, 0, 0, None)
       /\ readdir(stats, path, FALSE) =
            Result(stats, <<ListingPolicy(path)>>, <<"cb">>, 0, 0, None)
       /\ readdir(stats, path, TRUE).out[1] = ListingPolicy(path)
       /\ readdir(stats, path, TRUE).st = stats
  /\ last.act \in {"readdir", "readdirSync"} =>
       /\ last.out[1] = ListingPolicy(last.path)
       /\ last.probes = 0
       /\ last.fetches = 0
       /\ ~last.issued

\* a readdir of the directory delivers its names while the file in it has
\* preloaded content and a request is in flight
C12_Witness ==
  /\ last.act = "readdir"
  /\ last.path \in Dirs
  /\ last.out = <<Deliver(NoErr, ListingVal(<<"a.txt">>))>>
  /\ pending # EmptyBag
  /\ \E f \in Files : hist[f].preloaded /\ stats[f].file_data # None

(***************************************************************************)
(* C13: the Stats that stat hands out is a snapshot.                       *)
(***************************************************************************)
\* C13: the Stats that a stat or statSync of a file has just delivered reads
\* the same after the operation that follows, whatever that operation does to
\* the file's record (preloadFile, a completed open, a completed size request,
\* empty).
C13_StatSnapshot ==
  [][\A f \in Files :
       StatDelivered(f) =>
         seenThrough(last.shares, f, last.out[1].val, stats') = last.out[1].val]_vars

(***************************************************************************)
(* C14: a file handle is a snapshot.                                       *)
(***************************************************************************)
\* the record of the file as a handle shows it: its size and its bytes
HandleOver(rec) == FileVal(rec.size, IF rec.file_data = None THEN <<>> ELSE rec.file_data[1])

\* every value the Stats records can have
AnyRecords ==
  [Files -> [size : (-1)..MaxLen, file_data : {None} \cup {Some(b) : b \in Buffers}]]

ReportsXhrError ==
  /\ Len(last'.out) >= 1
  /\ last'.out[1].err = XhrError

\* a fresh stat and a fresh open of f with NOP from the records st, answered by
\* the server: they succeed, with a transport call where the record has no
\* size (stat) or no content (open)
FreshCallsSucceed(st, f) ==
  LET sizeOk == SizeResponse(NoErr, Len(remote[f]))
      fileOk == FileResponse(NoErr, remote[f])
  IN /\ \A s \in {statRun(st, f, sizeOk), statSync(st, f, sizeOk)} :
          /\ s.out[1].err = NoErr
          /\ s.probes = (IF st[f].size < 0 THEN 1 ELSE 0)
     /\ \A o \in {openRun(st, f, ReadNop, fileOk), openSync(st, f, ReadNop, fileOk)} :
          /\ o.out[1].err = NoErr
          /\ o.fetches = (IF st[f].file_data = None THEN 1 ELSE 0)

\* C15: a stat, open or readFile, blocking or not, whose size request or file
\* request fails delivers that error once and nothing else, after the one
\* transport call it issued and without issuing another; every Stats record is
\* as it was before; a fresh call on the file succeeds when the server answers,
\* and after a blocking call that failed it asks the server again.
C15_FailedFetch ==
  [][ReportsXhrError =>
       /\ last'.out = <<Deliver(XhrError, NoVal)>>
       /\ last'.path \in Files
       /\ stats' = stats
       /\ ~last'.issued
       /\ IF last'.act \in {"statDone", "openDone", "readFileDone"}
          THEN /\ last'.probes = 0
               /\ last'.fetches = 0
               /\ BagCardinality(pending') = BagCardinality(pending) - 1
          ELSE /\ last'.probes + last'.fetches = 1
               /\ pending' = pending
       /\ last'.act = "statSync" => last'.probes = 1 /\ stats'[last'.path].size < 0
       /\ last'.act \in {"openSync", "readFileSync"} =>
            last'.fetches = 1 /\ stats'[last'.path].file_data = None
       /\ FreshCallsSucceed(stats', last'.path)]_vars

\* the size request of a non-blocking stat has failed: the size is still
\* unknown and nothing is in flight
C15_Witness ==
  /\ last.act = "statDone"
  /\ last.out = <<Deliver(XhrError, NoVal)>>
  /\ last.path \in Files
  /\ stats[last.path] = [size |-> -1, file_data |-> None]
  /\ pending = EmptyBag
  /\ statSync(stats, last.path, SizeResponse(NoErr, Len(remote[last.path]))).probes = 1

(***************************************************************************)
(* C16: content present implies size = length of content.                  *)
(***************************************************************************)
\* C16: in every reachable state, every file's Stats record that has content
\* has the length of that content as its size.
C16_SizeIsContentLength ==
  \A f \in Files :
    stats[f].file_data # None => stats[f].size = Len(stats[f].file_data[1])

(***************************************************************************)
(* C17: how often a fetch writes a field of a Stats record.                *)
(***************************************************************************)
\* the step is a size request or a file request that succeeded and assigned
\* the size of file f
FetchWritesSize(f) ==
  /\ last'.path = f
  /\ Len(last'.out) >= 1
  /\ last'.out[1].err = NoErr
  /\ \/ last'.act \in {"statDone", "openDone"}
     \/ last'.act = "statSync" /\ last'.probes = 1
     \/ last'.act = "openSync" /\ last'.fetches = 1

\* the step is a file request that succeeded and assigned the content of f
FetchWritesContent(f) ==
  /\ last'.path = f
  /\ Len(last'.out) >= 1
  /\ last'.out[1].err = NoErr
  /\ \/ last'.act = "openDone"
     \/ last'.act = "openSync" /\ last'.fetches = 1

\* C17 (as amended): over any sequence of stat and open calls, every assignment
\* by a fetch stores the server's value (the length of its content as size, its
\* content as file_data), so that a size that is known and a content that is
\* present never change again; a blocking stat asks for the size only while it
\* is unknown and a blocking open fetches only while there is no content.
C17_FetchWritesOneValue ==
  [][\A f \in Files :
       /\ stats[f].size >= 0 => stats'[f].size = stats[f].size
       /\ stats[f].file_data # None => stats'[f].file_data = stats[f].file_data
       /\ FetchWritesSize(f) => stats'[f].size = Len(remote[f])
       /\ FetchWritesContent(f) => stats'[f].file_data = Some(remote[f])
       /\ (FetchWritesSize(f) /\ last'.act = "statSync") => stats[f].size < 0
       /\ (FetchWritesContent(f) /\ last'.act = "openSync") =>
            stats[f].file_data = None]_vars

\* C17 (as stated): over any sequence of stat and open calls, a fetch assigns
\* the size of a file at most once and its content at most once.
C17_AsStated ==
  [][\A f \in Files :
       /\ FetchWritesSize(f) => stats[f].size < 0
       /\ FetchWritesContent(f) => stats[f].file_data = None]_vars

\* the size request of a stat has assigned the size of a file whose content,
\* and with it its size, a file request had assigned before
C17_Witness ==
  \E f \in Files :
    /\ last.act = "statDone"
    /\ last.path = f
    /\ last.out = <<Deliver(NoErr, StatsVal(MaxLen))>>
    /\ stats[f] = [size |-> MaxLen, file_data |-> Some(remote[f])]
    /\ ~hist[f].preloaded

(***************************************************************************)
(* C18: opens of the same file at the same time are each fetched.          *)
(***************************************************************************)
\* the file requests of opens of f that are in flight
OpensInFlight(bag, f) == CopiesIn(OpenRequest(f), bag)

\* the record of f that one open of f alone leaves, from the index as built
SingleOpenRecord(f) ==
  openRun(InitStats, f, ReadNop, FileResponse(NoErr, remote[f])).st[f]

\* C18: every open with NOP of a file that has no content issues one file
\* request of its own, however many file requests for the file are in flight
\* already; every such request that succeeds hands its callback a handle over
\* the server's content, the same bytes for all of them; and whichever answers
\* first or last, the file's record after an answer is the record that a
\* single open leaves (the length and the content of the server), or unchanged
\* if the request failed.
C18_ConcurrentOpens ==
  [][\A f \in Files :
       /\ (/\ last'.act = "open" /\ last'.path = f /\ last'.flags = ReadNop
           /\ stats[f].file_data = None) =>
            /\ last'.fetches = 1
            /\ last'.issued
            /\ OpensInFlight(pending', f) = OpensInFlight(pending, f) + 1
            /\ stats' = stats
       /\ (last'.act = "openDone" /\ last'.path = f) =>
            /\ OpensInFlight(pending', f) = OpensInFlight(pending, f) - 1
            /\ last'.fetches = 0
            /\ IF last'.out[1].err = NoErr
               THEN /\ last'.out = <<Deliver(NoErr, FileVal(Len(remote[f]), remote[f]))>>
                    /\ stats'[f] = [size |-> Len(remote[f]), file_data |-> Some(remote[f])]
                    /\ stats'[f] = SingleOpenRecord(f)
               ELSE stats' = stats]_vars

\* one of two opens of the same file in flight has been answered; the other
\* is still in flight
C18_Witness ==
  \E f \in Files :
    /\ last.act = "openDone"
    /\ last.path = f
    /\ last.out = <<Deliver(NoErr, FileVal(MaxLen, remote[f]))>>
    /\ OpensInFlight(pending, f) >= 1
    /\ stats[f] = SingleOpenRecord(f)

(***************************************************************************)
(* C20: preloaded content and the requests that were in flight.            *)
(***************************************************************************)
\* C20: once preloadFile has given a file a buffer, and until empty or another
\* preloadFile of the file, every open and openSync of the file with NOP
\* delivers at once, without a transport call, a handle over that buffer whose
\* size is the buffer's length, also when a stat or an open of the file that
\* was issued before the preloadFile is answered after it.
C20_PreloadNotDisplaced ==
  [][\A f \in Files :
       (OpensNop(f) /\ hist[f].loaded # None) =>
         /\ CachedHit
         /\ last'.out[1].val = FileVal(Len(hist[f].loaded[1]), hist[f].loaded[1])]_vars

====
